---------------------------- MODULE Spec2Model ----------------------------
(* Passport batch validator (src/main.rs): the record parser from_str,    *)
(* the two validators is_valid_pt1 / is_valid_pt2, and the driver         *)
(* main / get_pes / read_lines.  A Rust String is a sequence of           *)
(* characters; a character is a one-character TLA+ string, except that    *)
(* the non-ASCII decimal digit U+0663 is written "U+0663".                *)
EXTENDS Integers, Sequences, FiniteSets, TLC

(***************************************************************************)
(* Bounds of the model                                                     *)
(***************************************************************************)
\* longest input file, in lines
MaxLines == 3
\* most leading zeros put in front of a generated number
MaxZeros == 2
\* longest generated pid
MaxPidLen == 10

(***************************************************************************)
(* Characters and character classes                                        *)
(***************************************************************************)
ArabicIndicThree == "U+0663"

AsciiDigit == {"0", "1", "2", "3", "4", "5", "6", "7", "8", "9"}

\* \d of the regex crate is Unicode aware: it is \p{Nd}, not [0-9]
UnicodeNd == AsciiDigit \cup {ArabicIndicThree}

\* char::is_whitespace / \s
WhiteSpace == {" ", "\t"}

\* the character class [a-f|0-9] of HCL_RE
HclClass == {"a", "b", "c", "d", "e", "f", "|"} \cup AsciiDigit

\* char::to_digit(10)
to_digit(c) ==
  CASE c = "0" -> 0 [] c = "1" -> 1 [] c = "2" -> 2 [] c = "3" -> 3
    [] c = "4" -> 4 [] c = "5" -> 5 [] c = "6" -> 6 [] c = "7" -> 7
    [] c = "8" -> 8 [] c = "9" -> 9

(***************************************************************************)
(* Option<String> and Result                                               *)
(***************************************************************************)
None == [some |-> FALSE, val |-> <<>>]

Some(s) == [some |-> TRUE, val |-> s]

(***************************************************************************)
(* str::parse::<u32>().  A u32 is kept as two 16-bit limbs, hi * 2^16 + lo,*)
(* so that the 32-bit overflow check is exact.                             *)
(***************************************************************************)
LimbBase == 65536

ParseErr == [ok |-> FALSE, hi |-> 0, lo |-> 0]

\* variant: wrapping_mul / wrapping_add, no overflow check
checked_mul_add_wrapping(acc, x) ==
  LET lo10 == acc.lo * 10 + x
      hi10 == acc.hi * 10 + (lo10 \div LimbBase)
  IN  [ok |-> TRUE, hi |-> hi10 % LimbBase, lo |-> lo10 % LimbBase]

\* result.checked_mul(10) followed by result.checked_add(x)
checked_mul_add(acc, x) ==
  LET lo10 == acc.lo * 10 + x
      hi10 == acc.hi * 10 + (lo10 \div LimbBase)
  IN  IF hi10 >= LimbBase
        THEN ParseErr
        ELSE [ok |-> TRUE, hi |-> hi10, lo |-> lo10 % LimbBase]

RECURSIVE parse_digits(_, _)
parse_digits(digits, acc) ==
  IF digits = <<>> THEN acc
  ELSE IF Head(digits) \notin AsciiDigit THEN ParseErr
  ELSE LET next == checked_mul_add(acc, to_digit(Head(digits)))
       IN  IF next.ok THEN parse_digits(Tail(digits), next) ELSE ParseErr

parse_u32(src) ==
  IF src = <<>> THEN ParseErr
  ELSE IF Len(src) = 1 /\ Head(src) \in {"+", "-"} THEN ParseErr
  ELSE IF Head(src) = "+"
         THEN parse_digits(Tail(src), [ok |-> TRUE, hi |-> 0, lo |-> 0])
         ELSE parse_digits(src, [ok |-> TRUE, hi |-> 0, lo |-> 0])

\* (i >= lo) && (i <= hi) for an Ok(i): u32 and bounds below 2^16
in_range(r, lo, hi) == r.ok /\ r.hi = 0 /\ r.lo >= lo /\ r.lo <= hi

(***************************************************************************)
(* struct PassportEntry and impl FromStr                                   *)
(***************************************************************************)
Fields == {"ecl", "eyr", "pid", "hcl", "byr", "iyr", "cid", "hgt"}

\* PassportEntry::default()
PassportEntry == [f \in Fields |-> None]

\* str::split_whitespace: the maximal runs of non-whitespace characters,
\* in order.  The next token starts at the first non-whitespace character
\* and runs to the character before the next whitespace.
RECURSIVE split_whitespace(_)
split_whitespace(s) ==
  LET rest == {i \in 1..Len(s) : s[i] \notin WhiteSpace}
  IN  IF rest = {} THEN <<>>
      ELSE LET b == CHOOSE i \in rest : \A j \in rest : i <= j
               e == CHOOSE j \in b..Len(s) :
                      /\ \A k \in b..j : s[k] \notin WhiteSpace
                      /\ j = Len(s) \/ s[j + 1] \in WhiteSpace
           IN  <<SubSeq(s, b, e)>> \o split_whitespace(SubSeq(s, e + 1, Len(s)))

\* RE = (\S+):(\S+), unanchored, both groups greedy, on a block without
\* whitespace: the first match starts at the first character and group 1
\* runs up to the LAST colon that still has a character after it.
RE_colons(block) ==
  {k \in 2..(Len(block) - 1) : block[k] = ":"}

RE_captures(block) ==
  IF RE_colons(block) = {}
    THEN [matched |-> FALSE, key |-> <<>>, value |-> <<>>]
    ELSE LET k == CHOOSE c \in RE_colons(block) :
                    \A d \in RE_colons(block) : d <= c
         IN  [matched |-> TRUE,
              key     |-> SubSeq(block, 1, k - 1),
              value   |-> SubSeq(block, k + 1, Len(block))]

\* variant: an unknown key is dropped into the unchecked cid field
match_key_lenient(key) ==
  CASE key = <<"e", "c", "l">> -> "ecl"
    [] key = <<"e", "y", "r">> -> "eyr"
    [] key = <<"p", "i", "d">> -> "pid"
    [] key = <<"h", "c", "l">> -> "hcl"
    [] key = <<"b", "y", "r">> -> "byr"
    [] key = <<"i", "y", "r">> -> "iyr"
    [] key = <<"h", "g", "t">> -> "hgt"
    [] OTHER -> "cid"

\* the match over &cap[1]; "none" is the _ arm (panic!("Invalid key"))
match_key(key) ==
  CASE key = <<"e", "c", "l">> -> "ecl"
    [] key = <<"e", "y", "r">> -> "eyr"
    [] key = <<"p", "i", "d">> -> "pid"
    [] key = <<"h", "c", "l">> -> "hcl"
    [] key = <<"b", "y", "r">> -> "byr"
    [] key = <<"i", "y", "r">> -> "iyr"
    [] key = <<"c", "i", "d">> -> "cid"
    [] key = <<"h", "g", "t">> -> "hgt"
    [] OTHER -> "none"

Panicked == [panic |-> TRUE, pe |-> PassportEntry]

\* the body of `for block in blocks`, applied to what is left of blocks
RECURSIVE from_str_blocks(_, _)
from_str_blocks(blocks, pe) ==
  IF blocks = <<>> THEN [panic |-> FALSE, pe |-> pe]
  ELSE LET cap == RE_captures(Head(blocks))
       IN  IF ~cap.matched THEN Panicked
           ELSE IF match_key(cap.key) = "none" THEN Panicked
           ELSE from_str_blocks(Tail(blocks),
                  [pe EXCEPT ![match_key(cap.key)] = Some(cap.value)])

from_str(s) == from_str_blocks(split_whitespace(s), PassportEntry)

(***************************************************************************)
(* impl PassportEntry: the two validators                                  *)
(***************************************************************************)
\* variant: the hgt conjunct is forgotten
is_valid_pt1_without_hgt(self) ==
  /\ self.ecl.some
  /\ self.eyr.some
  /\ self.pid.some
  /\ self.hcl.some
  /\ self.byr.some
  /\ self.iyr.some

is_valid_pt1(self) ==
  /\ self.ecl.some
  /\ self.eyr.some
  /\ self.pid.some
  /\ self.hcl.some
  /\ self.byr.some
  /\ self.iyr.some
  /\ self.hgt.some

byr_valid(self) ==
  IF self.byr.some THEN in_range(parse_u32(self.byr.val), 1920, 2002)
                   ELSE FALSE

iyr_valid(self) ==
  IF self.iyr.some THEN in_range(parse_u32(self.iyr.val), 2010, 2020)
                   ELSE FALSE

eyr_valid(self) ==
  IF self.eyr.some THEN in_range(parse_u32(self.eyr.val), 2020, 2030)
                   ELSE FALSE

\* variant: the pattern without ^, (\d+)cm$ : group 1 is the longest run of
\* digits in front of the unit
unit_captures_unanchored(hgt, unit) ==
  LET n == Len(hgt) - Len(unit)
  IN  IF /\ n >= 1
         /\ SubSeq(hgt, n + 1, Len(hgt)) = unit
         /\ hgt[n] \in UnicodeNd
        THEN LET i == CHOOSE j \in 1..n :
                        /\ \A k \in j..n : hgt[k] \in UnicodeNd
                        /\ j = 1 \/ hgt[j - 1] \notin UnicodeNd
             IN  Some(SubSeq(hgt, i, n))
        ELSE None

\* CM_RE = ^(\d+)cm$ and IN_RE = ^(\d+)in$ : Some(group 1) or None
unit_captures(hgt, unit) ==
  LET n == Len(hgt) - Len(unit)
  IN  IF /\ n >= 1
         /\ SubSeq(hgt, n + 1, Len(hgt)) = unit
         /\ \A i \in 1..n : hgt[i] \in UnicodeNd
        THEN Some(SubSeq(hgt, 1, n))
        ELSE None

CM_RE(hgt) == unit_captures(hgt, <<"c", "m">>)

IN_RE(hgt) == unit_captures(hgt, <<"i", "n">>)

hgt_valid(self) ==
  IF self.hgt.some
    THEN LET cm_cap == CM_RE(self.hgt.val)
             in_cap == IN_RE(self.hgt.val)
         IN  IF cm_cap.some
               THEN in_range(parse_u32(cm_cap.val), 150, 193)
               ELSE IF in_cap.some
                 THEN in_range(parse_u32(in_cap.val), 59, 76)
                 ELSE FALSE
    ELSE FALSE

\* variant: the pattern without $, ^#[a-f|0-9]{6}
HCL_RE_without_end(hcl) ==
  /\ Len(hcl) >= 1 + 6
  /\ hcl[1] = "#"
  /\ \A i \in 2..(1 + 6) : hcl[i] \in HclClass

\* HCL_RE = ^#[a-f|0-9]{6}$
HCL_RE(hcl) ==
  /\ Len(hcl) = 1 + 6
  /\ hcl[1] = "#"
  /\ \A i \in 2..Len(hcl) : hcl[i] \in HclClass

hcl_valid(self) == IF self.hcl.some THEN HCL_RE(self.hcl.val) ELSE FALSE

ECL_VALUES ==
  {<<"a", "m", "b">>, <<"b", "l", "u">>, <<"b", "r", "n">>, <<"g", "r", "y">>, <<"g", "r", "n">>, <<"h", "z", "l">>, <<"o", "t", "h">>}

ecl_valid(self) == IF self.ecl.some THEN self.ecl.val \in ECL_VALUES ELSE FALSE

\* PID_RE = ^\d{9}$
PID_RE(pid) ==
  /\ Len(pid) = 9
  /\ \A i \in 1..Len(pid) : pid[i] \in UnicodeNd

pid_valid(self) == IF self.pid.some THEN PID_RE(self.pid.val) ELSE FALSE

is_valid_pt2(self) ==
  /\ byr_valid(self)
  /\ iyr_valid(self)
  /\ eyr_valid(self)
  /\ hgt_valid(self)
  /\ hcl_valid(self)
  /\ ecl_valid(self)
  /\ pid_valid(self)

(***************************************************************************)
(* State                                                                   *)
(***************************************************************************)
VARIABLES
  file,          \* the input file: can it be opened, and its lines
  part,          \* opts.part
  pc,            \* where main / get_pes stand
  idx,           \* next line of `for line in lines`
  current_line,  \* get_pes: current_line
  pes,           \* get_pes: pes
  out,           \* lines printed on stdout
  entry,         \* the PassportEntry a validator is called on
  vpc,           \* which validator has run on entry
  result,        \* what the validator returned
  checks         \* is_valid_pt2: the seven *_valid locals

vars == <<file, part, pc, idx, current_line, pes, out,
          entry, vpc, result, checks>>

main_vars == <<file, part, pc, idx, current_line, pes, out>>

validator_vars == <<entry, vpc, result, checks>>

Required == Fields \ {"cid"}

NoChecks == [f \in Required |-> FALSE]

(***************************************************************************)
(* Inputs of the validators                                                *)
(***************************************************************************)
\* the sample record of the comment above struct PassportEntry
Good ==
  [ecl |-> <<"g", "r", "y">>, pid |-> <<"8", "6", "0", "0", "3", "3", "3", "2", "7">>, eyr |-> <<"2", "0", "2", "0">>,
   hcl |-> <<"#", "f", "f", "f", "f", "f", "d">>, byr |-> <<"1", "9", "3", "7">>, iyr |-> <<"2", "0", "1", "7">>,
   cid |-> <<"1", "4", "7">>, hgt |-> <<"1", "8", "3", "c", "m">>]

GoodEntry == [f \in Fields |-> Some(Good[f])]

Junk == <<"x">>

Fill(n, c) == [i \in 1..n |-> c]

ZeroRuns == {Fill(n, "0") : n \in 0..MaxZeros}

Arabic(n) == Fill(n, ArabicIndicThree)

\* 2^32 + 1980, 2^32 + 2015, 2^32 + 2025, 2^32 - 1
YearCores ==
  {<<"1", "9", "1", "9">>, <<"1", "9", "2", "0">>, <<"2", "0", "0", "2">>, <<"2", "0", "0", "3">>, <<"2", "0", "0", "9">>, <<"2", "0", "1", "0">>,
   <<"2", "0", "2", "0">>, <<"2", "0", "2", "1">>, <<"2", "0", "3", "0">>, <<"2", "0", "3", "1">>, <<>>, <<"1", "9", "a", "7">>,
   <<"4", "2", "9", "4", "9", "6", "9", "2", "7", "6">>, <<"4", "2", "9", "4", "9", "6", "9", "3", "1", "1">>, <<"4", "2", "9", "4", "9", "6", "9", "3", "2", "1">>, <<"4", "2", "9", "4", "9", "6", "7", "2", "9", "5">>,
   Arabic(4)}

YearTexts ==
  {p \o z \o c \o t : p \in {<<>>, <<"+">>, <<"-">>}, z \in ZeroRuns,
                      c \in YearCores, t \in {<<>>, <<"x">>}}

\* 2^32 + 150, 2^32 + 60
HgtCores ==
  {<<"1", "4", "9">>, <<"1", "5", "0">>, <<"1", "9", "3">>, <<"1", "9", "4">>, <<"5", "8">>, <<"5", "9">>, <<"7", "6">>,
   <<"7", "7">>, <<"1", "9", "0">>, <<"6", "0">>, <<>>, <<"4", "2", "9", "4", "9", "6", "7", "4", "4", "6">>, <<"4", "2", "9", "4", "9", "6", "7", "3", "5", "6">>,
   Arabic(3)}

HgtUnits ==
  {<<"c", "m">>, <<"i", "n">>, <<>>, <<"c", "m", "x">>, <<"m">>, <<"C", "M">>, <<"i", "n", "c", "m">>, <<" ", "c", "m">>}

HgtTexts ==
  {p \o z \o c \o u : p \in {<<>>, <<"+">>, <<"x">>}, z \in ZeroRuns,
                      c \in HgtCores, u \in HgtUnits}

HclBase == <<"#", "1", "2", "3", "a", "b", "c">>

HclChars ==
  {"0", "9", "a", "f", "g", "z", "A", "F", "|", "#", " ", ArabicIndicThree}

HclTexts ==
  {[HclBase EXCEPT ![i] = c] : i \in 1..Len(HclBase), c \in HclChars}
    \cup {SubSeq(HclBase, 1, n) : n \in 0..Len(HclBase)}
    \cup {HclBase \o <<"0">>, <<"x">> \o HclBase, <<"1", "2", "3", "a", "b", "c">>, <<"#", "1", "2", "3", "A", "B", "C">>,
          <<"#", "1", "2", "|", "a", "b", "c">>, <<"#", "1", "2", "3", "a", "b", "z">>}

PidChars == {"1", "a", "+", " ", ArabicIndicThree}

PidTexts ==
  {Fill(n, c) : n \in 0..MaxPidLen, c \in {"0", "8", ArabicIndicThree}}
    \cup UNION {{[Fill(n, "0") EXCEPT ![i] = d] : i \in 1..n, d \in PidChars} :
                   n \in 1..MaxPidLen}
    \cup {<<"0", "0", "0", "0", "0", "0", "0", "0", "1">>, <<"0", "1", "2", "3", "4", "5", "6", "7", "8", "9">>}

EclTexts ==
  ECL_VALUES \cup {<<>>, <<"x", "y", "z">>, <<"A", "M", "B">>, <<"a", "m", "b", " ">>, <<"a", "m", "b", "x">>, <<"a", "m">>}

CidTexts == {<<"1", "4", "7">>, <<>>, Junk}

Texts ==
  [ecl |-> EclTexts, pid |-> PidTexts, eyr |-> YearTexts, hcl |-> HclTexts,
   byr |-> YearTexts, iyr |-> YearTexts, cid |-> CidTexts, hgt |-> HgtTexts]

\* every pattern of absent / sample value / junk over the eight fields
PresenceEntries ==
  {[f \in Fields |-> CASE m[f] = 0 -> None
                       [] m[f] = 1 -> Some(Good[f])
                       [] OTHER    -> Some(Junk)] : m \in [Fields -> 0..2]}

\* the sample record with one field replaced by a text of that field
VariedEntries ==
  UNION {{[GoodEntry EXCEPT ![f] = Some(v)] : v \in Texts[f]} : f \in Fields}

Entries == PresenceEntries \cup VariedEntries

(***************************************************************************)
(* The validators as operations on one PassportEntry                       *)
(***************************************************************************)
InitValidate ==
  /\ entry \in Entries
  /\ vpc = "init"
  /\ result = FALSE
  /\ checks = NoChecks
  /\ file = [openable |-> FALSE, lines |-> <<>>]
  /\ part = 1
  /\ pc = "idle"
  /\ idx = 1
  /\ current_line = <<>>
  /\ pes = <<>>
  /\ out = <<>>

CallPt1 ==
  /\ vpc = "init"
  /\ result' = is_valid_pt1(entry)
  /\ vpc' = "pt1"
  /\ UNCHANGED <<entry, checks>>
  /\ UNCHANGED main_vars

CallPt2 ==
  /\ vpc = "init"
  /\ checks' = [byr |-> byr_valid(entry), iyr |-> iyr_valid(entry),
                eyr |-> eyr_valid(entry), hgt |-> hgt_valid(entry),
                hcl |-> hcl_valid(entry), ecl |-> ecl_valid(entry),
                pid |-> pid_valid(entry)]
  /\ result' = is_valid_pt2(entry)
  /\ vpc' = "pt2"
  /\ UNCHANGED entry
  /\ UNCHANGED main_vars

NextValidate == CallPt1 \/ CallPt2

SpecValidate == InitValidate /\ [][NextValidate]_vars

(***************************************************************************)
(* Input files of the run                                                  *)
(***************************************************************************)
Ok(text) == [ok |-> TRUE, text |-> text]

\* a line that io::Lines yields as Err (bytes that are not UTF-8)
ErrLine == [ok |-> FALSE, text |-> <<>>]

Blank == <<>>

\* all eight fields, every one passing the strict rules
LineA ==
  <<"e", "c", "l", ":", "g", "r", "y", " ", "p", "i", "d", ":", "8", "6", "0", "0", "3", "3", "3", "2", "7", " ", "e", "y", "r", ":", "2", "0", "2", "0", " ", "h", "c", "l", ":", "#", "f", "f", "f", "f", "f", "d", " ", "b", "y", "r", ":", "1", "9", "3", "7", " ", "i", "y", "r", ":", "2", "0", "1", "7", " ", "c", "i", "d", ":", "1", "4", "7", " ", "h", "g", "t", ":", "1", "8", "3", "c", "m">>

\* the same without hgt, with a tab and a double space between tokens
LineB ==
  <<"e", "c", "l", ":", "g", "r", "y", " ", "p", "i", "d", ":", "8", "6", "0", "0", "3", "3", "3", "2", "7", " ", "e", "y", "r", ":", "2", "0", "2", "0", " ", "h", "c", "l", ":", "#", "f", "f", "f", "f", "f", "d", " ", "b", "y", "r", ":", "1", "9", "3", "7", "\t", "i", "y", "r", ":", "2", "0", "1", "7", " ", " ", "c", "i", "d", ":", "1", "4", "7">>

LineHgt == <<"h", "g", "t", ":", "1", "9", "0", "i", "n">>

LineBadKey == <<"x", "y", "z", ":", "1", "2", "3">>

LineNoValue == <<"e", "c", "l", ":">>

LineTwoColons == <<"h", "g", "t", ":", "1", "8", "3", "c", "m", ":">>

\* only whitespace, which is not the empty line
LineSpaces == <<" ", "\t">>

LineTexts ==
  {Blank, LineA, LineB, LineHgt, LineBadKey, LineNoValue, LineTwoColons,
   LineSpaces}

Lines == {Ok(t) : t \in LineTexts} \cup {ErrLine}

Files ==
  {[openable |-> FALSE, lines |-> <<>>]}
    \cup {[openable |-> TRUE, lines |-> ls] :
            ls \in UNION {[1..n -> Lines] : n \in 0..MaxLines}}

Parts == {0, 1, 2}

(***************************************************************************)
(* main, get_pes, read_lines                                               *)
(***************************************************************************)
\* println!("There were {} valid passports", valid_count)
println(valid_count) ==
  [fmt |-> "There were {} valid passports", arg |-> valid_count]

\* pes.iter().filter(|x| x.is_valid_pt1()).count()
count_pt1(v) == Cardinality({i \in 1..Len(v) : is_valid_pt1(v[i])})

\* pes.iter().filter(|x| x.is_valid_pt2()).count()
count_pt2(v) == Cardinality({i \in 1..Len(v) : is_valid_pt2(v[i])})

\* variant: the separating space is forgotten
append_line_without_space(cur, line_as_string) == cur \o line_as_string

\* current_line += &" "; current_line += &line_as_string;
append_line(cur, line_as_string) == cur \o <<" ">> \o line_as_string

Init ==
  /\ file \in Files
  /\ part \in Parts
  /\ pc = "start"
  /\ idx = 1
  /\ current_line = <<>>
  /\ pes = <<>>
  /\ out = <<>>
  /\ entry = PassportEntry
  /\ vpc = "idle"
  /\ result = FALSE
  /\ checks = NoChecks

\* read_lines(filename) is Ok(lines): enter the for loop
ReadLinesOk ==
  /\ pc = "start"
  /\ file.openable
  /\ pc' = "loop"
  /\ UNCHANGED <<file, part, idx, current_line, pes, out>>
  /\ UNCHANGED validator_vars

\* read_lines(filename) is Err: the `if let` skips the loop, current_line
\* is still "" so nothing is pushed, and get_pes returns the empty pes
ReadLinesErr ==
  /\ pc = "start"
  /\ ~file.openable
  /\ pc' = "count"
  /\ UNCHANGED <<file, part, idx, current_line, pes, out>>
  /\ UNCHANGED validator_vars

\* `if let Ok(line_as_string) = line` fails: the line is dropped
LineErr ==
  /\ pc = "loop"
  /\ idx <= Len(file.lines)
  /\ ~file.lines[idx].ok
  /\ idx' = idx + 1
  /\ UNCHANGED <<file, part, pc, current_line, pes, out>>
  /\ UNCHANGED validator_vars

\* line_as_string == "": push from_str(&current_line).unwrap()
LineBlank ==
  /\ pc = "loop"
  /\ idx <= Len(file.lines)
  /\ file.lines[idx].ok
  /\ file.lines[idx].text = <<>>
  /\ LET r == from_str(current_line)
     IN  IF r.panic
           THEN /\ pc' = "panicked"
                /\ UNCHANGED <<idx, current_line, pes>>
           ELSE /\ pes' = Append(pes, r.pe)
                /\ current_line' = <<>>
                /\ idx' = idx + 1
                /\ UNCHANGED pc
  /\ UNCHANGED <<file, part, out>>
  /\ UNCHANGED validator_vars

\* any other line is appended to current_line
LineText ==
  /\ pc = "loop"
  /\ idx <= Len(file.lines)
  /\ file.lines[idx].ok
  /\ file.lines[idx].text # <<>>
  /\ current_line' = append_line(current_line, file.lines[idx].text)
  /\ idx' = idx + 1
  /\ UNCHANGED <<file, part, pc, pes, out>>
  /\ UNCHANGED validator_vars

\* the lines are exhausted: `if current_line != ""` pushes the last record
EndOfLines ==
  /\ pc = "loop"
  /\ idx > Len(file.lines)
  /\ IF current_line # <<>>
       THEN LET r == from_str(current_line)
            IN  IF r.panic
                  THEN /\ pc' = "panicked"
                       /\ UNCHANGED pes
                  ELSE /\ pes' = Append(pes, r.pe)
                       /\ pc' = "count"
       ELSE /\ pc' = "count"
            /\ UNCHANGED pes
  /\ UNCHANGED <<file, part, idx, current_line, out>>
  /\ UNCHANGED validator_vars

\* main: opts.part == 1
MainPt1 ==
  /\ pc = "count"
  /\ part = 1
  /\ out' = Append(out, println(count_pt1(pes)))
  /\ pc' = "done"
  /\ UNCHANGED <<file, part, idx, current_line, pes>>
  /\ UNCHANGED validator_vars

\* main: the else branch
MainPt2 ==
  /\ pc = "count"
  /\ part # 1
  /\ out' = Append(out, println(count_pt2(pes)))
  /\ pc' = "done"
  /\ UNCHANGED <<file, part, idx, current_line, pes>>
  /\ UNCHANGED validator_vars

Next ==
  \/ ReadLinesOk
  \/ ReadLinesErr
  \/ LineErr
  \/ LineBlank
  \/ LineText
  \/ EndOfLines
  \/ MainPt1
  \/ MainPt2

Spec == Init /\ [][Next]_vars

(***************************************************************************)
(* Vocabulary of the properties                                            *)
(***************************************************************************)
YearFields == {"byr", "iyr", "eyr"}

YearLo == [byr |-> 1920, iyr |-> 2010, eyr |-> 2020]

YearHi == [byr |-> 2002, iyr |-> 2020, eyr |-> 2030]

AllIn(s, class) == \A i \in 1..Len(s) : s[i] \in class

DigitValue(c) == CHOOSE n \in 0..9 : <<"0", "1", "2", "3", "4", "5", "6", "7", "8", "9">>[n + 1] = c

\* a digit string without its leading zeros
Significant(s) ==
  LET nz == {i \in 1..Len(s) : s[i] # "0"}
  IN  IF nz = {} THEN <<>>
      ELSE SubSeq(s, CHOOSE i \in nz : \A j \in nz : i <= j, Len(s))

\* the number a string of at most four digits denotes
RECURSIVE Denotes(_)
Denotes(t) ==
  IF t = <<>> THEN 0
  ELSE Denotes(SubSeq(t, 1, Len(t) - 1)) * 10 + DigitValue(t[Len(t)])

\* s is one or more digits 0-9 and the number it denotes lies in lo..hi
\* (hi has at most four digits)
NumberIn(s, lo, hi) ==
  /\ s # <<>>
  /\ AllIn(s, AsciiDigit)
  /\ Len(Significant(s)) <= 4
  /\ Denotes(Significant(s)) \in lo..hi

\* s parses as a non-negative integer (an optional + sign, then digits)
\* whose value lies in lo..hi
IntegerIn(s, lo, hi) ==
  NumberIn(IF s # <<>> /\ Head(s) = "+" THEN Tail(s) ELSE s, lo, hi)

\* s is digits followed by exactly the unit, the digits denoting lo..hi
MeasureIn(s, unit, lo, hi) ==
  /\ Len(s) > Len(unit)
  /\ SubSeq(s, Len(s) - Len(unit) + 1, Len(s)) = unit
  /\ NumberIn(SubSeq(s, 1, Len(s) - Len(unit)), lo, hi)

Without(pe, f) == [pe EXCEPT ![f] = None]

(***************************************************************************)
(* Properties of the validators (under SpecValidate)                       *)
(***************************************************************************)
\* C1: basic mode returns true exactly when all seven of ecl, eyr, pid, hcl,
\* byr, iyr, hgt are present, whatever they hold; taking any one of the seven
\* away from a passing record makes it fail; cid, present or absent or with
\* another value, never changes the result.
C1_BasicIffSevenPresent ==
  vpc = "pt1" =>
    /\ result <=> (\A f \in Required : entry[f].some)
    /\ result => \A f \in Required : ~is_valid_pt1(Without(entry, f))
    /\ \A c \in {None, Some(Junk), Some(Good.cid)} :
         is_valid_pt1([entry EXCEPT !.cid = c]) = result

C1_Witness ==
  /\ vpc = "pt1"
  /\ result
  /\ ~entry.cid.some
  /\ entry.hgt = Some(Junk)

\* C3: in strict mode each of the byr, iyr, eyr checks passes exactly when the
\* field is present and parses as a non-negative integer within the field's
\* inclusive range (1920..2002, 2010..2020, 2020..2030), so a valid record
\* has all three; a value that does not parse, being non-numeric or too large
\* for the integer type, fails the check and the validator still returns.
C3_YearsInRange ==
  vpc = "pt2" =>
    /\ \A f \in YearFields :
         checks[f] <=> /\ entry[f].some
                       /\ IntegerIn(entry[f].val, YearLo[f], YearHi[f])
    /\ result => \A f \in YearFields : checks[f]
    /\ entry.byr.val \in {<<"1", "9", "2", "0">>, <<"2", "0", "0", "2">>} => checks.byr
    /\ entry.byr.val \in {<<"1", "9", "1", "9">>, <<"2", "0", "0", "3">>} => ~checks.byr

C3_Witness ==
  /\ vpc = "pt2"
  /\ result
  /\ entry.byr = Some(<<"2", "0", "0", "2">>)

\* C4: in strict mode the hgt check passes exactly when hgt is present and is
\* either digits followed by exactly cm with the number in 150..193, or
\* digits followed by exactly in with the number in 59..76; no unit, another
\* unit, extra characters, a number out of range or too large to parse fail.
C4_HeightShapeAndRange ==
  vpc = "pt2" =>
    /\ checks.hgt <=> /\ entry.hgt.some
                      /\ \/ MeasureIn(entry.hgt.val, <<"c", "m">>, 150, 193)
                         \/ MeasureIn(entry.hgt.val, <<"i", "n">>, 59, 76)
    /\ entry.hgt.val \in {<<"1", "9", "0", "i", "n">>, <<"1", "9", "0">>, <<"6", "0", "c", "m">>} => ~checks.hgt

C4_Witness ==
  /\ vpc = "pt2"
  /\ result
  /\ entry.hgt = Some(<<"0", "0", "5", "9", "i", "n">>)

C6_PidNineAsciiDigits ==
  vpc = "pt2" =>
    (checks.pid <=> /\ entry.pid.some
                    /\ Len(entry.pid.val) = 9
                    /\ AllIn(entry.pid.val, AsciiDigit))

\* C10: a record that strict mode accepts has byr, iyr and eyr of exactly
\* four decimal digits each.
C10_YearsFourDigits ==
  vpc = "pt2" /\ result =>
    \A f \in YearFields :
      Len(entry[f].val) = 4 /\ AllIn(entry[f].val, AsciiDigit)

(***************************************************************************)
(* Vocabulary of the properties of a run                                   *)
(***************************************************************************)
\* the texts of the lines of the file that could be read, in order
ReadTexts(f) ==
  LET okl == SelectSeq(f.lines, LAMBDA l : l.ok)
  IN  [i \in 1..Len(okl) |-> okl[i].text]

\* the lines a text block starts at: a non-blank line after a blank line or
\* at the top
BlockStarts(ls) ==
  {i \in 1..Len(ls) : ls[i] # <<>> /\ (i = 1 \/ ls[i - 1] = <<>>)}

BlockEnd(ls, i) ==
  CHOOSE j \in i..Len(ls) :
    /\ \A k \in i..j : ls[k] # <<>>
    /\ j = Len(ls) \/ ls[j + 1] = <<>>

RECURSIVE JoinLines(_, _, _)
JoinLines(ls, i, j) ==
  IF i = j THEN ls[i] ELSE ls[i] \o <<" ">> \o JoinLines(ls, i + 1, j)

\* the text blocks: the maximal runs of non-blank lines, joined by spaces
TextBlocks(ls) ==
  LET starts == BlockStarts(ls)
      nth(n) == CHOOSE i \in starts : Cardinality({j \in starts : j < i}) = n - 1
  IN  [n \in 1..Cardinality(starts) |-> JoinLines(ls, nth(n), BlockEnd(ls, nth(n)))]

FileBlocks == TextBlocks(ReadTexts(file))

AllBlocksParse == \A n \in DOMAIN FileBlocks : ~from_str(FileBlocks[n]).panic

Passes(pe) == IF part = 1 THEN is_valid_pt1(pe) ELSE is_valid_pt2(pe)

\* how many text blocks parse to a record the selected validator accepts
ValidBlocks ==
  Cardinality({n \in DOMAIN FileBlocks :
                 /\ ~from_str(FileBlocks[n]).panic
                 /\ Passes(from_str(FileBlocks[n]).pe)})

InputConsumed == ~file.openable \/ idx > Len(file.lines)

TwoRecordInput == <<Ok(LineA), Ok(Blank), Ok(LineB)>>

KeyTexts ==
  {<<"e", "c", "l">>, <<"e", "y", "r">>, <<"p", "i", "d">>, <<"h", "c", "l">>, <<"b", "y", "r">>, <<"i", "y", "r">>, <<"c", "i", "d">>,
   <<"h", "g", "t">>}

\* the whitespace-separated tokens of the lines that could be read
FileTokens ==
  UNION {{split_whitespace(ReadTexts(file)[i])[n] :
            n \in DOMAIN split_whitespace(ReadTexts(file)[i])} :
         i \in DOMAIN ReadTexts(file)}

\* t reads as key:value, a colon with something on either side of it, with
\* one of the eight field names as the key
ReadsAsField(t) ==
  \E k \in 2..(Len(t) - 1) : t[k] = ":" /\ SubSeq(t, 1, k - 1) \in KeyTexts

Unreadable == ~file.openable \/ \E i \in DOMAIN file.lines : ~file.lines[i].ok

(***************************************************************************)
(* Properties of a run (under Spec)                                        *)
(***************************************************************************)
\* C2, as stated: for every input file and selector the run ends having
\* printed exactly one line, There were N valid passports, N being the number
\* of text blocks whose record passes the selected validator, and prints it
\* only once the whole input is consumed.
C2_EveryInputPrintsCount ==
  /\ pc \in {"done", "panicked"} => out = <<println(ValidBlocks)>>
  /\ out # <<>> => InputConsumed

\* C2, amended: for every input file none of whose text blocks makes the
\* parser abort, and every selector, the run does not abort and prints
\* exactly one line, There were N valid passports, only once the whole input
\* is consumed, N being the number of text blocks whose record passes the
\* basic validator for selector 1 and the strict one otherwise; a run that
\* aborts prints nothing.  Record A strict-valid, blank line, record B without
\* hgt gives N = 1 in both modes.
C2_ParsedInputPrintsCount ==
  /\ pc = "panicked" => ~AllBlocksParse
  /\ pc = "done" => out = <<println(ValidBlocks)>>
  /\ pc # "done" => out = <<>>
  /\ out # <<>> => InputConsumed
  /\ pc = "done" /\ file.lines = TwoRecordInput => out = <<println(1)>>

C2_Witness ==
  /\ pc = "done"
  /\ file.lines = TwoRecordInput
  /\ part = 2
  /\ out = <<println(1)>>

C8_UnreadablePrintsNothing == Unreadable => out = <<>>

\* C9: get_pes returns exactly one record per text block, in input order,
\* the record parsed from the block's lines joined by spaces; blank lines,
\* however many and wherever they are, add no record of their own.
C9_OneRecordPerBlock ==
  pc \in {"count", "done"} =>
    pes = [n \in DOMAIN FileBlocks |-> from_str(FileBlocks[n]).pe]

====
